---------------------------- MODULE Spec2Model ----------------------------
(***************************************************************************)
(* I2C temperature acquisition loop (MAX31875 / TMP102 style sensors).     *)
(*                                                                         *)
(* The repository holds two sketches that share the bus helpers, the mode  *)
(* configurator and the sample decoder:                                    *)
(*   "serial" : src/MIT_I2C_PSCODE.ino  (diagnostic text stream only)      *)
(*   "ble"    : src/unnamed/part_000    (wireless notification + stream)   *)
(* The variable `variant` says which sketch runs.  Where the two sketches  *)
(* differ, the actions branch on it.                                       *)
(*                                                                         *)
(* Temperatures are kept as exact multiples of 1/16 degree: tC is the      *)
(* integer raw with celsius = raw * 0.0625 (the float product is exact     *)
(* for every 16-bit integer).                                              *)
(***************************************************************************)
EXTENDS Integers, Sequences, FiniteSets, TLC

(***************************************************************************)
(* Program constants.                                                      *)
(***************************************************************************)
\* const uint8_t ADDRS[] = {0x4D, 0x48, 0x4F};
ADDRS == <<77, 72, 79>>

\* static const uint16_t RES_MASK = 0x0060;  bits 6:5
RES_MASK == 96
\* static const uint16_t SHDN_MASK = 0x0100; bit 8
SHDN_MASK == 256
\* static const uint16_t RATE_MASK = 0x0006; bits 2:1
RATE_MASK == 6
\* static const uint16_t RATE_1SPS = 0x0002; bits 2:1 = 01
RATE_1SPS == 2

\* register offsets used by force12_and_run (0x01) and read12 (0x00)
CFG_REG == 1
TEMP_REG == 0

\* delay(150) after configuration, delay(1000) at the end of loop()
SETTLE_MS == 150
TICK_MS == 1000

(***************************************************************************)
(* Bounds of the model: how many sample register values / sample           *)
(* temperature words the bus may return in the state-machine               *)
(* specification (the exhaustive specifications draw every 16-bit word).   *)
(***************************************************************************)
NumCfgSamples == 2
NumTempSamples == 2

(***************************************************************************)
(* 16-bit machine arithmetic.                                              *)
(***************************************************************************)
Word16 == 0 .. 65535
Byte == 0 .. 255

RECURSIVE BitAnd(_, _)
BitAnd(a, b) ==
    IF a = 0 \/ b = 0 THEN 0
    ELSE (a % 2) * (b % 2) + 2 * BitAnd(a \div 2, b \div 2)

RECURSIVE BitOr(_, _)
BitOr(a, b) ==
    IF a = 0 THEN b
    ELSE IF b = 0 THEN a
    ELSE (IF (a % 2) + (b % 2) > 0 THEN 1 ELSE 0) + 2 * BitOr(a \div 2, b \div 2)

\* ~m narrowed to 16 bits
BitNot16(m) == 65535 - m

\* conversion to uint16_t / int16_t (two's complement)
ToU16(x) == x % 65536
ToS16(x) == LET u == x % 65536 IN IF u >= 32768 THEN u - 65536 ELSE u

\* (uint8_t)(v >> 8) and (uint8_t)(v & 0xFF)
HiByte(v) == (v \div 256) % 256
LoByte(v) == BitAnd(v, 255)

(***************************************************************************)
(* Bus log entries.  `bus` records the Wire-level calls of the current     *)
(* phase (startup, or the current tick) in the order they are issued.      *)
(*   op = "tx"    : beginTransmission(addr); write(bytes...);              *)
(*                  endTransmission(stop); ok = (result == 0)              *)
(*   op = "req"   : requestFrom(addr, 2); got = the count returned;         *)
(*                  ok = (count == 2); bytes = the two bytes the program   *)
(*                  then reads (none when the count is not 2)              *)
(*   op = "delay" : delay(ms)                                              *)
(***************************************************************************)
Tx(a, bytes, stop, ack) ==
    [op |-> "tx", addr |-> a, bytes |-> bytes, stop |-> stop, ok |-> ack,
     got |-> 0, ms |-> 0]

Req(a, got, b1, b2) ==
    [op |-> "req", addr |-> a,
     bytes |-> IF got = 2 THEN <<b1, b2>> ELSE <<>>,
     stop |-> TRUE, ok |-> (got = 2), got |-> got, ms |-> 0]

Delay(ms) ==
    [op |-> "delay", addr |-> 0, bytes |-> <<>>, stop |-> FALSE, ok |-> TRUE,
     got |-> 0, ms |-> ms]

(***************************************************************************)
(* (Wire.read() << 8) | Wire.read()                                        *)
(* The two calls are operands of one `|`; C++ leaves their evaluation      *)
(* order to the build.  order = "lr": the left operand's call runs first   *)
(* (first byte received becomes the high byte); order = "rl": the right    *)
(* operand's call runs first.                                              *)
(***************************************************************************)
Assemble(order, b1, b2) ==
    IF order = "lr" THEN BitOr(b1 * 256, b2) ELSE BitOr(b2 * 256, b1)

\* Variant of i2cRead16 that does not compare the count requestFrom returns
\* with 2.
i2cRead16NoCountCheck(a, r, order, selAck, got, b1, b2, vOld) ==
    IF ~selAck
    THEN [ok |-> FALSE, v |-> vOld, calls |-> <<Tx(a, <<r>>, FALSE, FALSE)>>]
    ELSE [ok |-> TRUE, v |-> ToU16(Assemble(order, b1, b2)),
          calls |-> <<Tx(a, <<r>>, FALSE, TRUE), Req(a, got, b1, b2)>>]

(***************************************************************************)
(* bool i2cRead16(uint8_t a, uint8_t r, uint16_t &v)                       *)
(* Inputs: selAck = endTransmission(false) returned 0, got = the count     *)
(* requestFrom returned, b1 b2 = the bytes the device sent, vOld = v       *)
(* before the call.  Result: ok, v after the call, the bus calls issued.   *)
(***************************************************************************)
i2cRead16(a, r, order, selAck, got, b1, b2, vOld) ==
    IF ~selAck
    THEN [ok |-> FALSE, v |-> vOld, calls |-> <<Tx(a, <<r>>, FALSE, FALSE)>>]
    ELSE IF got # 2
    THEN [ok |-> FALSE, v |-> vOld,
          calls |-> <<Tx(a, <<r>>, FALSE, TRUE), Req(a, got, b1, b2)>>]
    ELSE [ok |-> TRUE, v |-> ToU16(Assemble(order, b1, b2)),
          calls |-> <<Tx(a, <<r>>, FALSE, TRUE), Req(a, 2, b1, b2)>>]

\* Variant of i2cWrite16 that sends the low byte of v before the high byte.
i2cWrite16LsbFirst(a, r, v, ack) ==
    [ok |-> ack, calls |-> <<Tx(a, <<r, LoByte(v), HiByte(v)>>, TRUE, ack)>>]


(***************************************************************************)
(* bool i2cWrite16(uint8_t a, uint8_t r, uint16_t v)                       *)
(***************************************************************************)
i2cWrite16(a, r, v, ack) ==
    [ok |-> ack, calls |-> <<Tx(a, <<r, HiByte(v), LoByte(v)>>, TRUE, ack)>>]

\* Variant of Force12Cfg that ORs RATE_1SPS in without clearing the RATE
\* field first.
Force12CfgKeepsRate(cfg_before) ==
    LET c1 == BitAnd(cfg_before, BitNot16(RES_MASK))
        c2 == BitOr(c1, RES_MASK)
        c3 == BitAnd(c2, BitNot16(SHDN_MASK))
    IN  BitOr(c3, RATE_1SPS)

(***************************************************************************)
(* The value force12_and_run computes for write-back from cfg_before.      *)
(***************************************************************************)
Force12Cfg(cfg_before) ==
    LET c1 == BitAnd(cfg_before, BitNot16(RES_MASK))      \* cfg &= ~RES_MASK
        c2 == BitOr(c1, RES_MASK)                         \* cfg |=  RES_MASK
        c3 == BitAnd(c2, BitNot16(SHDN_MASK))             \* cfg &= ~SHDN_MASK
        c4 == BitOr(BitAnd(c3, BitNot16(RATE_MASK)), RATE_1SPS)
    IN  c4

\* Variant of ResIs12 that accepts any non-zero RES field.
ResNonZero(cfg_after) == BitAnd(cfg_after \div 32, 3) # 0

\* ((cfg_after >> 5) & 0x3) == 0b11
ResIs12(cfg_after) == BitAnd(cfg_after \div 32, 3) = 3

\* Variant of Decode that divides by 16 (rounding toward zero) instead of
\* shifting.
DecodeTruncDiv(w) ==
    LET s   == ToS16(w)
        sh  == IF s < 0 THEN 0 - ((0 - s) \div 16) ELSE s \div 16
        raw == IF BitAnd(ToU16(sh), 2048) # 0
               THEN ToS16(BitOr(ToU16(sh), 61440))
               ELSE sh
    IN  raw

\* Variant of Decode that shifts by 3 bits instead of 4.
DecodeShift3(w) ==
    LET s   == ToS16(w)
        sh  == s \div 8
        raw == IF BitAnd(ToU16(sh), 2048) # 0
               THEN ToS16(BitOr(ToU16(sh), 61440))
               ELSE sh
    IN  raw


(***************************************************************************)
(* The arithmetic of read12 on the assembled word w; the result is raw,    *)
(* and tC = raw * 0.0625f.                                                 *)
(***************************************************************************)
Decode(w) ==
    LET s   == ToS16(w)                                   \* (int16_t)w
        sh  == s \div 16                                  \* >> 4 (arithmetic)
        raw == IF BitAnd(ToU16(sh), 2048) # 0             \* raw & 0x0800
               THEN ToS16(BitOr(ToU16(sh), 61440))        \* raw |= 0xF000
               ELSE sh
    IN  raw


(***************************************************************************)
(* What the bus may answer.  A device sends a register MSB first; each     *)
(* sample is the pair of bytes on the wire.                                *)
(*   config samples     : 0x0146 (SHDN=1 RES=10 RATE=11), 0x0000,          *)
(*                        0x8061 (RES=11 and unrelated bits 15, 0), 0xFFFF *)
(*   temperature samples: 0x1900 (25.0), 0xFE00 (-2.0),                    *)
(*                        0x7FFF (127.9375, padding bits set), 0x8000      *)
(***************************************************************************)
CfgTable == << <<1, 70>>, <<0, 0>>, <<128, 97>>, <<255, 255>> >>
TempTable == << <<25, 0>>, <<254, 0>>, <<127, 255>>, <<128, 0>> >>

Min(x, y) == IF x <= y THEN x ELSE y

CfgSamples == { CfgTable[k] : k \in 1 .. Min(NumCfgSamples, Len(CfgTable)) }
TempSamples == { TempTable[k] : k \in 1 .. Min(NumTempSamples, Len(TempTable)) }
AllPairs == Byte \X Byte

\* The bytes the program gets to read in one 2-byte read: a sample pair when
\* the register-select was acknowledged and two bytes were returned, none
\* otherwise (Wire.read() is then not called).
Answers(samples, selAck, got) ==
    IF selAck /\ got = 2 THEN samples ELSE {<<0, 0>>}

(***************************************************************************)
(* Text of the outputs.                                                    *)
(***************************************************************************)
HexDigitsLower == <<"0", "1", "2", "3", "4", "5", "6", "7",
                    "8", "9", "a", "b", "c", "d", "e", "f">>
DecDigits == <<"0", "1", "2", "3", "4", "5", "6", "7", "8", "9">>

HexDigitsUpper == <<"0", "1", "2", "3", "4", "5", "6", "7",
                    "8", "9", "A", "B", "C", "D", "E", "F">>

\* Variant of StringHex that writes upper-case digits, as Serial.print(a, HEX)
\* does.
RECURSIVE StringHexUpper(_)
StringHexUpper(a) ==
    IF a < 16 THEN HexDigitsUpper[a + 1]
    ELSE StringHexUpper(a \div 16) \o HexDigitsUpper[(a % 16) + 1]


\* String(a, HEX): digits of a in base 16, no padding, lower case
RECURSIVE StringHex(_)
StringHex(a) ==
    IF a < 16 THEN HexDigitsLower[a + 1]
    ELSE StringHex(a \div 16) \o HexDigitsLower[(a % 16) + 1]

RECURSIVE DecStr(_)
DecStr(n) ==
    IF n < 10 THEN DecDigits[n + 1]
    ELSE DecStr(n \div 10) \o DecDigits[(n % 10) + 1]

\* String(tC, 2): sign, integer part, '.', two decimals, the magnitude
\* rounded to the nearest hundredth (raw is tC in sixteenths).
StringFloat2(raw) ==
    LET m == IF raw < 0 THEN 0 - raw ELSE raw
        h == (m * 100 + 8) \div 16
        f == h % 100
    IN  (IF raw < 0 THEN "-" ELSE "") \o DecStr(h \div 100) \o "."
        \o DecDigits[(f \div 10) + 1] \o DecDigits[(f % 10) + 1]

\* The text loop() appends to payload for one reading (ble sketch).
FragmentText(a, raw) ==
    "Addr 0x" \o (IF a < 16 THEN "0" ELSE "") \o StringHex(a) \o ": "
    \o StringFloat2(raw) \o " C  |  "

\* One reading appended to payload: the address and temperature it is
\* about, and its text.
Fragment(a, raw) == [addr |-> a, tC |-> raw, text |-> FragmentText(a, raw)]

\* Lines written to the diagnostic stream.
Line(kind, a, x, y, p) == [kind |-> kind, addr |-> a, x |-> x, y |-> y, payload |-> p]
BannerLine == Line("banner", 0, 0, 0, <<>>)
CfgLine(a, before, after) == Line("cfg", a, before, after, <<>>)
WarnLine(a) == Line("warn", a, 0, 0, <<>>)
ReadingLine(a, raw) == Line("reading", a, raw, 0, <<>>)
ReadFailedLine(a) == Line("read failed", a, 0, 0, <<>>)
BleStartedLine == Line("ble started", 0, 0, 0, <<>>)
PayloadLine(p) == Line("payload", 0, 0, 0, p)

(***************************************************************************)
(* State.                                                                  *)
(***************************************************************************)
VARIABLES
    variant,     \* "serial" or "ble": which sketch runs
    order,       \* the build's evaluation order of the two Wire.read() calls
    pc,          \* position of the single thread of control
    idx,         \* index into ADDRS of the range-for in setup() / loop()
    cfg_before,  \* locals of force12_and_run (0 when not in scope)
    cfg,
    cfg_after,
    payload,     \* loop()'s String payload, as the fragments appended
    bus,         \* Wire calls and delays issued in this phase (startup / tick)
    serial,      \* lines written to the diagnostic stream in this phase
    ble,         \* calls on pCharacteristic in this tick
    startup      \* per address index: what startup did with it

vars == <<variant, order, pc, idx, cfg_before, cfg, cfg_after, payload,
          bus, serial, ble, startup>>

N == Len(ADDRS)
Addr == ADDRS[idx]

Init ==
    /\ variant \in {"serial", "ble"}
    /\ order \in {"lr", "rl"}
    /\ pc = "setup_begin"
    /\ idx = 1
    /\ cfg_before = 0
    /\ cfg = 0
    /\ cfg_after = 0
    /\ payload = <<>>
    /\ bus = <<>>
    /\ serial = <<>>
    /\ ble = <<>>
    /\ startup = [i \in 1 .. N |-> "pending"]

(***************************************************************************)
(* setup()                                                                 *)
(***************************************************************************)
\* Serial.begin, Wire.begin, and (serial sketch) the banner line.  The
\* serial sketch's while(!Serial) {} is taken to return: the diagnostic
\* stream is up.
SetupBegin ==
    /\ pc = "setup_begin"
    /\ serial' = IF variant = "serial" THEN Append(serial, BannerLine) ELSE serial
    /\ pc' = "setup_probe"
    /\ UNCHANGED <<variant, order, idx, cfg_before, cfg, cfg_after, payload,
                   bus, ble, startup>>

\* Where setup() goes once it is done with ADDRS[idx].
SetupAdvance ==
    IF idx < N
    THEN /\ idx' = idx + 1
         /\ pc' = "setup_probe"
    ELSE /\ idx' = 1
         /\ pc' = IF variant = "ble" THEN "ble_init" ELSE "setup_done"

\* What setup() writes when force12_and_run(a) has returned ret: the serial
\* sketch warns on false, the ble sketch drops the result.
SetupWarn(ret, a) ==
    IF variant = "serial" /\ ~ret THEN <<WarnLine(a)>> ELSE <<>>

\* Variant of Force12Return in which setup() stops for good when the
\* configuration did not verify.
Force12ReturnHalt(ret, calls, lines) ==
    /\ bus' = bus \o calls
    /\ serial' = serial \o lines \o SetupWarn(ret, Addr)
    /\ startup' = [startup EXCEPT ![idx] = IF ret THEN "verified" ELSE "unverified"]
    /\ cfg_before' = 0
    /\ cfg' = 0
    /\ cfg_after' = 0
    /\ IF ret THEN SetupAdvance ELSE (pc' = "halt" /\ UNCHANGED idx)
    /\ UNCHANGED <<variant, order, payload, ble>>

\* force12_and_run(ADDRS[idx]) returns ret to setup(), having issued `calls`
\* and written `lines`.
Force12Return(ret, calls, lines) ==
    /\ bus' = bus \o calls
    /\ serial' = serial \o lines \o SetupWarn(ret, Addr)
    /\ startup' = [startup EXCEPT ![idx] = IF ret THEN "verified" ELSE "unverified"]
    /\ cfg_before' = 0
    /\ cfg' = 0
    /\ cfg_after' = 0
    /\ SetupAdvance
    /\ UNCHANGED <<variant, order, payload, ble>>

\* Wire.beginTransmission(a); if (Wire.endTransmission() == 0) ...
SetupProbe ==
    /\ pc = "setup_probe"
    /\ \E ack \in BOOLEAN :
          /\ bus' = Append(bus, Tx(Addr, <<>>, TRUE, ack))
          /\ IF ack
             THEN /\ pc' = "f12_read"
                  /\ UNCHANGED <<idx, startup>>
             ELSE /\ startup' = [startup EXCEPT ![idx] = "absent"]
                  /\ SetupAdvance
    /\ UNCHANGED <<variant, order, cfg_before, cfg, cfg_after, payload,
                   serial, ble>>

\* force12_and_run, from entry to the computation of cfg:
\* the initial i2cRead16(a, 0x01, cfg_before) and the three field updates.
F12Read(samples) ==
    /\ pc = "f12_read"
    /\ \E selAck \in BOOLEAN, got \in 0 .. 2 :
       \E s \in Answers(samples, selAck, got) :
          LET r == i2cRead16(Addr, CFG_REG, order, selAck, got, s[1], s[2], cfg_before)
          IN  IF ~r.ok
              THEN Force12Return(FALSE, r.calls, <<>>)
              ELSE /\ cfg_before' = r.v
                   /\ cfg' = Force12Cfg(r.v)
                   /\ bus' = bus \o r.calls
                   /\ pc' = "f12_write"
                   /\ UNCHANGED <<variant, order, idx, cfg_after, payload,
                                  serial, ble, startup>>

\* Variant of AfterWrite in which neither sketch waits before the re-read.
AfterWriteNoWait == "f12_verify"

\* Where force12_and_run continues after a successful write-back: the ble
\* sketch waits first, the serial sketch re-reads first.
AfterWrite == IF variant = "ble" THEN "f12_delay" ELSE "f12_verify"

\* if(!i2cWrite16(a, 0x01, cfg)) return false;
F12Write ==
    /\ pc = "f12_write"
    /\ \E ack \in BOOLEAN :
          LET w == i2cWrite16(Addr, CFG_REG, cfg, ack)
          IN  IF ~w.ok
              THEN Force12Return(FALSE, w.calls, <<>>)
              ELSE /\ bus' = bus \o w.calls
                   /\ pc' = AfterWrite
                   /\ UNCHANGED <<variant, order, idx, cfg_before, cfg, cfg_after,
                                  payload, serial, ble, startup>>

\* The value force12_and_run returns once cfg_after has been read.
Force12Result == ResIs12(cfg_after)

\* delay(150): in the ble sketch between the write and the re-read, in the
\* serial sketch after the debug line, right before the return.
F12Delay ==
    /\ pc = "f12_delay"
    /\ IF variant = "ble"
       THEN /\ bus' = Append(bus, Delay(SETTLE_MS))
            /\ pc' = "f12_verify"
            /\ UNCHANGED <<variant, order, idx, cfg_before, cfg, cfg_after,
                           payload, serial, ble, startup>>
       ELSE Force12Return(Force12Result, <<Delay(SETTLE_MS)>>, <<>>)

\* What the device may answer to the verification re-read: the value just
\* written (sent MSB first) if it latched it, or any other register value.
\* if(!i2cRead16(a, 0x01, cfg_after)) return false;  and what follows it.
F12Verify ==
    /\ pc = "f12_verify"
    /\ \E selAck \in BOOLEAN, got \in 0 .. 2 :
       \E s \in Answers({<<HiByte(cfg), LoByte(cfg)>>} \cup CfgSamples, selAck, got) :
          LET r == i2cRead16(Addr, CFG_REG, order, selAck, got, s[1], s[2], cfg_after)
          IN  IF ~r.ok
              THEN Force12Return(FALSE, r.calls, <<>>)
              ELSE IF variant = "ble"
              THEN Force12Return(ResIs12(r.v), r.calls, <<>>)
              ELSE /\ cfg_after' = r.v
                   /\ bus' = bus \o r.calls
                   /\ serial' = Append(serial, CfgLine(Addr, cfg_before, r.v))
                   /\ pc' = "f12_delay"
                   /\ UNCHANGED <<variant, order, idx, cfg_before, cfg, payload,
                                  ble, startup>>

\* BLEDevice::init ... getAdvertising()->start(); Serial.println(...)
BleInit ==
    /\ pc = "ble_init"
    /\ serial' = Append(serial, BleStartedLine)
    /\ pc' = "setup_done"
    /\ UNCHANGED <<variant, order, idx, cfg_before, cfg, cfg_after, payload,
                   bus, ble, startup>>

\* Variant of read12 that selects the register a second time when the first
\* select was not acknowledged.
read12Retry(a, ord, selAck, got, b1, b2, tOld) ==
    IF ~selAck
    THEN [ok |-> FALSE, tC |-> tOld,
          calls |-> <<Tx(a, <<TEMP_REG>>, FALSE, FALSE), Tx(a, <<TEMP_REG>>, FALSE, FALSE)>>]
    ELSE IF got # 2
    THEN [ok |-> FALSE, tC |-> tOld,
          calls |-> <<Tx(a, <<TEMP_REG>>, FALSE, TRUE), Req(a, got, b1, b2)>>]
    ELSE [ok |-> TRUE, tC |-> Decode(ToU16(Assemble(ord, b1, b2))),
          calls |-> <<Tx(a, <<TEMP_REG>>, FALSE, TRUE), Req(a, 2, b1, b2)>>]


(***************************************************************************)
(* bool read12(uint8_t a, float &tC)                                       *)
(* Inputs as for i2cRead16; tOld = tC before the call.  tC is in           *)
(* sixteenths of a degree.                                                 *)
(***************************************************************************)
read12(a, ord, selAck, got, b1, b2, tOld) ==
    IF ~selAck
    THEN [ok |-> FALSE, tC |-> tOld, calls |-> <<Tx(a, <<TEMP_REG>>, FALSE, FALSE)>>]
    ELSE IF got # 2
    THEN [ok |-> FALSE, tC |-> tOld,
          calls |-> <<Tx(a, <<TEMP_REG>>, FALSE, TRUE), Req(a, got, b1, b2)>>]
    ELSE [ok |-> TRUE, tC |-> Decode(ToU16(Assemble(ord, b1, b2))),
          calls |-> <<Tx(a, <<TEMP_REG>>, FALSE, TRUE), Req(a, 2, b1, b2)>>]

(***************************************************************************)
(* loop()                                                                  *)
(***************************************************************************)
\* payload.length()
RECURSIVE PayloadLength(_)
PayloadLength(p) ==
    IF p = <<>> THEN 0 ELSE Len(Head(p).text) + PayloadLength(Tail(p))

\* Calls on the notification characteristic.
SetValue(p) == [op |-> "setValue", value |-> p]
Notify(p) == [op |-> "notify", value |-> p]

\* Variant of LoopBegin in which payload outlives the tick (a global String
\* that is never cleared).
LoopBeginKeepsPayload ==
    /\ pc \in {"setup_done", "loop_begin"}
    /\ bus' = <<>>
    /\ serial' = <<>>
    /\ ble' = <<>>
    /\ idx' = 1
    /\ pc' = "loop_probe"
    /\ UNCHANGED <<variant, order, cfg_before, cfg, cfg_after, payload,
                   startup>>


\* Entry of loop(): a new tick.  The ble sketch starts with an empty
\* payload.  The records of the previous phase are dropped here.
LoopBegin ==
    /\ pc \in {"setup_done", "loop_begin"}
    /\ payload' = <<>>
    /\ bus' = <<>>
    /\ serial' = <<>>
    /\ ble' = <<>>
    /\ idx' = 1
    /\ pc' = "loop_probe"
    /\ UNCHANGED <<variant, order, cfg_before, cfg, cfg_after, startup>>

\* Variant of LoopAdvance whose sweep ends one address early.
LoopAdvanceSkipsLast ==
    IF idx < N - 1
    THEN /\ idx' = idx + 1
         /\ pc' = "loop_probe"
    ELSE /\ idx' = 1
         /\ pc' = IF variant = "ble" THEN "loop_publish" ELSE "loop_delay"


\* Where loop() goes once it is done with ADDRS[idx].
LoopAdvance ==
    IF idx < N
    THEN /\ idx' = idx + 1
         /\ pc' = "loop_probe"
    ELSE /\ idx' = 1
         /\ pc' = IF variant = "ble" THEN "loop_publish" ELSE "loop_delay"

\* Variant of LoopProbe that runs force12_and_run on every device that
\* acknowledges, in every tick.
LoopProbeConfigures ==
    /\ pc = "loop_probe"
    /\ \E ack \in BOOLEAN :
          /\ bus' = Append(bus, Tx(Addr, <<>>, TRUE, ack))
          /\ IF ack
             THEN /\ pc' = "f12_read"
                  /\ UNCHANGED idx
             ELSE LoopAdvance
    /\ UNCHANGED <<variant, order, cfg_before, cfg, cfg_after, payload,
                   serial, ble, startup>>


\* Variant of LoopProbe that ends the sweep at the first address that does
\* not acknowledge (break instead of continue).
LoopProbeBreak ==
    /\ pc = "loop_probe"
    /\ \E ack \in BOOLEAN :
          /\ bus' = Append(bus, Tx(Addr, <<>>, TRUE, ack))
          /\ IF ack
             THEN /\ pc' = "loop_read"
                  /\ UNCHANGED idx
             ELSE /\ idx' = 1
                  /\ pc' = IF variant = "ble" THEN "loop_publish" ELSE "loop_delay"
    /\ UNCHANGED <<variant, order, cfg_before, cfg, cfg_after, payload,
                   serial, ble, startup>>

\* Wire.beginTransmission(a); if (Wire.endTransmission() != 0) continue;
LoopProbe ==
    /\ pc = "loop_probe"
    /\ \E ack \in BOOLEAN :
          /\ bus' = Append(bus, Tx(Addr, <<>>, TRUE, ack))
          /\ IF ack
             THEN /\ pc' = "loop_read"
                  /\ UNCHANGED idx
             ELSE LoopAdvance
    /\ UNCHANGED <<variant, order, cfg_before, cfg, cfg_after, payload,
                   serial, ble, startup>>

\* Variant of LoopEmitSerial without the else branch.
LoopEmitSerialSilent(r, a) ==
    IF variant = "serial" /\ r.ok THEN <<ReadingLine(a, r.tC)>> ELSE <<>>

\* Variant of LoopEmitPayload that appends whatever read12 returned.
LoopEmitPayloadAlways(r, a) ==
    IF variant = "ble" THEN <<Fragment(a, r.tC)>> ELSE <<>>

\* What loop() emits for ADDRS[idx] once read12 has returned r: the serial
\* sketch prints a reading line or a "read failed" line; the ble sketch
\* appends a fragment to payload on success and nothing on failure.
LoopEmitSerial(r, a) ==
    IF variant = "serial"
    THEN IF r.ok THEN <<ReadingLine(a, r.tC)>> ELSE <<ReadFailedLine(a)>>
    ELSE <<>>

LoopEmitPayload(r, a) ==
    IF variant = "ble" /\ r.ok THEN <<Fragment(a, r.tC)>> ELSE <<>>

\* float tC; if (read12(a, tC)) { ... } [else { ... }]
LoopRead(samples) ==
    /\ pc = "loop_read"
    /\ \E selAck \in BOOLEAN, got \in 0 .. 2 :
       \E s \in Answers(samples, selAck, got) :
          LET r == read12(Addr, order, selAck, got, s[1], s[2], 0)
          IN  /\ bus' = bus \o r.calls
              /\ serial' = serial \o LoopEmitSerial(r, Addr)
              /\ payload' = payload \o LoopEmitPayload(r, Addr)
    /\ LoopAdvance
    /\ UNCHANGED <<variant, order, cfg_before, cfg, cfg_after, ble, startup>>

\* Variant of LoopPublish without the payload.length() > 0 test.
LoopPublishAlways ==
    /\ pc = "loop_publish"
    /\ serial' = Append(serial, PayloadLine(payload))
    /\ ble' = ble \o <<SetValue(payload), Notify(payload)>>
    /\ pc' = "loop_delay"
    /\ UNCHANGED <<variant, order, idx, cfg_before, cfg, cfg_after, payload,
                   bus, startup>>

\* if (payload.length() > 0) { Serial.println(payload);
\*   pCharacteristic->setValue(payload.c_str()); pCharacteristic->notify(); }
LoopPublish ==
    /\ pc = "loop_publish"
    /\ IF PayloadLength(payload) > 0
       THEN /\ serial' = Append(serial, PayloadLine(payload))
            /\ ble' = ble \o <<SetValue(payload), Notify(payload)>>
       ELSE UNCHANGED <<serial, ble>>
    /\ pc' = "loop_delay"
    /\ UNCHANGED <<variant, order, idx, cfg_before, cfg, cfg_after, payload,
                   bus, startup>>

\* delay(1000); loop() returns and is called again.
LoopDelay ==
    /\ pc = "loop_delay"
    /\ bus' = Append(bus, Delay(TICK_MS))
    /\ pc' = "loop_begin"
    /\ UNCHANGED <<variant, order, idx, cfg_before, cfg, cfg_after, payload,
                   serial, ble, startup>>

(***************************************************************************)
(* Specifications.                                                         *)
(***************************************************************************)
Next ==
    \/ SetupBegin
    \/ SetupProbe
    \/ F12Read(CfgSamples)
    \/ F12Write
    \/ F12Delay
    \/ F12Verify
    \/ BleInit
    \/ LoopBegin
    \/ LoopProbe
    \/ LoopRead(TempSamples)
    \/ LoopPublish
    \/ LoopDelay

Spec == Init /\ [][Next]_vars

(***************************************************************************)
(* Exhaustive specifications of the two pure computations.                 *)
(*                                                                         *)
(* SpecCfg starts where force12_and_run is entered for the first address   *)
(* (banner written, probe acknowledged) and lets the device answer the     *)
(* initial read with any 16-bit register value; SpecDecode starts a tick   *)
(* where read12 is entered for the first address and lets the device       *)
(* answer with any 16-bit word.                                            *)
(***************************************************************************)
InitCfg ==
    /\ variant \in {"serial", "ble"}
    /\ order \in {"lr", "rl"}
    /\ pc = "f12_read"
    /\ idx = 1
    /\ cfg_before = 0
    /\ cfg = 0
    /\ cfg_after = 0
    /\ payload = <<>>
    /\ bus = <<Tx(ADDRS[1], <<>>, TRUE, TRUE)>>
    /\ serial = IF variant = "serial" THEN <<BannerLine>> ELSE <<>>
    /\ ble = <<>>
    /\ startup = [i \in 1 .. N |-> "pending"]

NextCfg ==
    \/ F12Read(AllPairs)
    \/ F12Write

SpecCfg == InitCfg /\ [][NextCfg]_vars

InitDecode ==
    /\ variant \in {"serial", "ble"}
    /\ order \in {"lr", "rl"}
    /\ pc = "loop_read"
    /\ idx = 1
    /\ cfg_before = 0
    /\ cfg = 0
    /\ cfg_after = 0
    /\ payload = <<>>
    /\ bus = <<Tx(ADDRS[1], <<>>, TRUE, TRUE)>>
    /\ serial = <<>>
    /\ ble = <<>>
    /\ startup = [i \in 1 .. N |-> "absent"]

NextDecode == LoopRead(AllPairs)

SpecDecode == InitDecode /\ [][NextDecode]_vars

(***************************************************************************)
(* Reading the records.                                                    *)
(***************************************************************************)
\* bit k of the non-negative integer v
Bit(v, k) == (v \div (2 ^ k)) % 2

IsProbe(e, a) == e.op = "tx" /\ e.addr = a /\ e.bytes = <<>>
IsSelect(e, a, r) == e.op = "tx" /\ e.addr = a /\ e.bytes = <<r>> /\ ~e.stop
IsRequest(e, a) == e.op = "req" /\ e.addr = a
IsWrite(e, a) == e.op = "tx" /\ e.addr = a /\ Len(e.bytes) = 3
IsDelay(e) == e.op = "delay"

\* the bus calls addressed to a, in order
EntriesFor(a) == SelectSeq(bus, LAMBDA e : e.addr = a)

\* the 16-bit word the program assembles from the two bytes of a complete
\* request, under the build's evaluation order
WordOf(e) ==
    IF order = "lr" THEN e.bytes[1] * 256 + e.bytes[2]
    ELSE e.bytes[2] * 256 + e.bytes[1]

InStartup ==
    pc \in {"setup_begin", "setup_probe", "f12_read", "f12_write", "f12_delay",
            "f12_verify", "ble_init", "setup_done"}

InTick == pc \in {"loop_probe", "loop_read", "loop_publish", "loop_delay", "loop_begin"}

\* w has RES = 11, SHDN = 0, RATE = 01 and agrees with v on every other bit
FieldsForced(v, w) ==
    \A k \in 0 .. 15 :
        Bit(w, k) = CASE k \in {5, 6} -> 1
                      [] k = 8 -> 0
                      [] k = 2 -> 0
                      [] k = 1 -> 1
                      [] OTHER -> Bit(v, k)

(***************************************************************************)
(* force12_and_run called twice in succession on one device that latches   *)
(* what is written to it.  SpecTwice starts like SpecCfg; the device holds *)
(* any of the register values of TwiceWords at first and, after an         *)
(* acknowledged write, the value written.                                  *)
(***************************************************************************)
\* The initial register values: every low byte (RES, RATE and their
\* neighbours in all combinations) under four high bytes (SHDN set and
\* clear, the other high bits all clear and all set).
TwiceHighBytes == {0, 1, 254, 255}
TwiceWords == TwiceHighBytes \X Byte

\* the acknowledged register writes of this phase
AckedWrites == SelectSeq(bus, LAMBDA e : IsWrite(e, ADDRS[1]) /\ e.ok)

\* What the latching device sends, MSB first, when register 0x01 is read.
DeviceAnswers ==
    IF AckedWrites = <<>> THEN TwiceWords
    ELSE LET w == AckedWrites[Len(AckedWrites)]
         IN  {<<w.bytes[2], w.bytes[3]>>}

\* The first call has returned, every transaction of it succeeded and the
\* re-read showed the value written: force12_and_run(ADDRS[1]) is called
\* once more.
CallAgain ==
    /\ pc = "setup_probe"
    /\ idx = 2
    /\ Len(AckedWrites) = 1
    /\ LET E == EntriesFor(ADDRS[1])
       IN  /\ Len(E) = 6
           /\ \A k \in 1 .. 6 : E[k].ok
           /\ E[6].bytes = <<E[4].bytes[2], E[4].bytes[3]>>
    /\ idx' = 1
    /\ pc' = "f12_read"
    /\ UNCHANGED <<variant, order, cfg_before, cfg, cfg_after, payload,
                   bus, serial, ble, startup>>

NextTwice ==
    \/ F12Read(DeviceAnswers)
    \/ F12Write
    \/ F12Delay
    \/ F12Verify
    \/ CallAgain

SpecTwice == InitCfg /\ [][NextTwice]_vars


(***************************************************************************)
(* C1.  For every 16-bit mode-control register value v, the value          *)
(* force12_and_run computes for write-back has both RES bits set, the SHDN *)
(* bit clear, the RATE field equal to 01, and every other bit equal to the *)
(* corresponding bit of v; that value is what the write-back sends, high   *)
(* byte first.  (SpecCfg)                                                  *)
(***************************************************************************)
C1_MaskingCorrect ==
    /\ pc = "f12_write" => FieldsForced(cfg_before, cfg)
    /\ \A k \in 1 .. Len(bus) :
          IsWrite(bus[k], ADDRS[1]) =>
              /\ k = 4 /\ bus[3].ok /\ Len(bus[3].bytes) = 2
              /\ bus[k].bytes[1] = 1
              /\ FieldsForced(WordOf(bus[3]), bus[k].bytes[2] * 256 + bus[k].bytes[3])

\* 0xFFFF was read, 0xFEFB computed and written back
C1_Witness ==
    /\ pc \in {"f12_delay", "f12_verify"}
    /\ cfg_before = 65535
    /\ cfg = 65275
    /\ bus[4].bytes = <<1, 254, 251>>

(***************************************************************************)
(* C2.  For every 16-bit raw word w returned by a successful temperature   *)
(* read, the temperature read12 yields, times 16, is the signed 12-bit     *)
(* two's-complement integer held in the upper 12 bits of w; w = 0x1900     *)
(* gives 25.0 and w = 0xFE00 gives -2.0.  (SpecDecode)                     *)
(***************************************************************************)
\* the signed 12-bit integer in bits 15:4 of w
Upper12Signed(w) == LET u == w \div 16 IN IF u >= 2048 THEN u - 4096 ELSE u

\* the temperature (in sixteenths) the tick has emitted for address a
EmittedFor(a) ==
    IF variant = "serial"
    THEN { l.x : l \in { serial[k] : k \in
              { j \in 1 .. Len(serial) : serial[j].kind = "reading" /\ serial[j].addr = a } } }
    ELSE { payload[k].tC : k \in { j \in 1 .. Len(payload) : payload[j].addr = a } }

C2_DecodeIsSigned12 ==
    \A k \in 1 .. Len(bus) :
        (IsRequest(bus[k], ADDRS[1]) /\ bus[k].ok) =>
            LET w == WordOf(bus[k])
            IN  /\ EmittedFor(ADDRS[1]) = {Upper12Signed(w)}
                /\ w = 6400 => EmittedFor(ADDRS[1]) = {400}
                /\ w = 65024 => EmittedFor(ADDRS[1]) = {0 - 32}

\* 0xFE00 was read and -2.0 emitted
C2_Witness ==
    /\ Len(bus) = 3
    /\ bus[3].ok
    /\ WordOf(bus[3]) = 65024
    /\ EmittedFor(ADDRS[1]) = {0 - 32}

(***************************************************************************)
(* The bus calls of one force12_and_run(a), as startup's record shows      *)
(* them: E is EntriesFor(a), E[1] the presence probe of a.                 *)
(***************************************************************************)
\* E[k], E[k+1] are a complete, successful read of register 0x01 of a
ReadOkAt(E, k, a) ==
    /\ Len(E) >= k + 1
    /\ IsSelect(E[k], a, 1) /\ E[k].ok
    /\ IsRequest(E[k + 1], a) /\ E[k + 1].ok /\ Len(E[k + 1].bytes) = 2

\* E[k] is an acknowledged write of register 0x01 of a
WriteOkAt(E, k, a) ==
    /\ Len(E) >= k
    /\ IsWrite(E[k], a) /\ E[k].bytes[1] = 1 /\ E[k].ok

\* the RES field, bits 6:5, of v
ResField(v) == 2 * Bit(v, 6) + Bit(v, 5)

(***************************************************************************)
(* C3.  force12_and_run(a) returns true only if the initial register read, *)
(* the write-back and the verification re-read all succeeded and the RES   *)
(* field (bits 6:5) of the value returned by the re-read equals 0b11; a    *)
(* successful write whose readback shows any other RES value returns       *)
(* false.  (Spec)                                                          *)
(***************************************************************************)
C3_TrueOnlyIfVerified ==
    InStartup =>
        \A i \in 1 .. N :
            LET a == ADDRS[i]
                E == EntriesFor(a)
            IN  /\ startup[i] = "verified" =>
                      /\ Len(E) = 6
                      /\ IsProbe(E[1], a) /\ E[1].ok
                      /\ ReadOkAt(E, 2, a)
                      /\ WriteOkAt(E, 4, a)
                      /\ ReadOkAt(E, 5, a)
                      /\ ResField(WordOf(E[6])) = 3
                /\ (/\ startup[i] \in {"verified", "unverified"}
                    /\ WriteOkAt(E, 4, a)
                    /\ ReadOkAt(E, 5, a)
                    /\ ResField(WordOf(E[6])) # 3) => startup[i] = "unverified"

\* the first address verified; the second took the write, read back with
\* another RES value, and was reported unverified
C3_Witness ==
    /\ InStartup
    /\ startup[1] = "verified"
    /\ startup[2] = "unverified"
    /\ LET E == EntriesFor(ADDRS[2])
       IN  /\ WriteOkAt(E, 4, ADDRS[2])
           /\ ReadOkAt(E, 5, ADDRS[2])
           /\ ResField(WordOf(E[6])) # 3

(***************************************************************************)
(* C4.  In force12_and_run, if the initial read of register 0x01 fails the *)
(* function returns false without issuing any write transaction to the     *)
(* device, and if the write-back fails it returns false without issuing    *)
(* the verification re-read; the device's register is never written with a *)
(* value not derived from a successful read.  (Spec)                       *)
(***************************************************************************)
C4_NoWriteAfterFailedRead ==
    InStartup =>
        \A i \in 1 .. N :
            LET a == ADDRS[i]
                E == EntriesFor(a)
            IN  \* a failed initial read ends the call, with false
                /\ (Len(E) >= 2 /\ ~E[2].ok) =>
                      (Len(E) = 2 /\ startup[i] = "unverified")
                /\ (Len(E) >= 3 /\ ~E[3].ok) =>
                      (Len(E) = 3 /\ startup[i] = "unverified")
                \* a failed write-back ends the call, with false
                /\ (Len(E) >= 4 /\ ~E[4].ok) =>
                      (Len(E) = 4 /\ startup[i] = "unverified")
                \* every write follows a successful read and sends the value
                \* derived from it
                /\ \A k \in 1 .. Len(E) :
                      IsWrite(E[k], a) =>
                          /\ k = 4
                          /\ ReadOkAt(E, 2, a)
                          /\ E[k].bytes[1] = 1
                          /\ FieldsForced(WordOf(E[3]),
                                          E[k].bytes[2] * 256 + E[k].bytes[3])

\* the first address failed its initial read (short read), the second its
\* write-back; neither call went further
C4_Witness ==
    /\ InStartup
    /\ LET E1 == EntriesFor(ADDRS[1])
           E2 == EntriesFor(ADDRS[2])
       IN  /\ Len(E1) = 3 /\ ~E1[3].ok
           /\ Len(E2) = 4 /\ IsWrite(E2[4], ADDRS[2]) /\ ~E2[4].ok
    /\ startup[1] = "unverified"
    /\ startup[2] = "unverified"
    /\ startup[3] # "pending"

(***************************************************************************)
(* C5.  As claimed: in force12_and_run, after a successful write-back to a *)
(* device the 150 ms settling wait happens before the verification re-read *)
(* and before any other read transaction addressed to that device.         *)
(* The serial sketch re-reads first and waits afterwards, so this fails.   *)
(* (Spec)                                                                  *)
(***************************************************************************)
IsSettleWait(e) == IsDelay(e) /\ e.ms = 150

\* bus[j] starts or completes a read of device a
IsReadOf(e, a) == e.addr = a /\ ((e.op = "tx" /\ ~e.stop) \/ e.op = "req")

\* every read of the device written at bus[k] comes after a settling wait
\* that follows bus[k]
WaitBeforeReads(k) ==
    \A j \in (k + 1) .. Len(bus) :
        IsReadOf(bus[j], bus[k].addr) =>
            \E m \in (k + 1) .. (j - 1) : IsSettleWait(bus[m])

C5_WaitBeforeAnyRead ==
    InStartup =>
        \A k \in 1 .. Len(bus) :
            (IsWrite(bus[k], bus[k].addr) /\ bus[k].ok) => WaitBeforeReads(k)

(***************************************************************************)
(* C5, amended.  In the ble sketch, after a successful write-back the      *)
(* 150 ms wait is the next thing force12_and_run does, before the          *)
(* verification re-read and before any other read of that device.  In the  *)
(* serial sketch the verification re-read is issued directly after the     *)
(* successful write-back; the 150 ms wait follows that re-read when it     *)
(* succeeded, and a failed re-read returns false without any wait.         *)
(***************************************************************************)
C5_WaitPlacement ==
    InStartup =>
        \A k \in 1 .. Len(bus) :
            (IsWrite(bus[k], bus[k].addr) /\ bus[k].ok) =>
                LET a == bus[k].addr
                    L == Len(bus)
                IN  IF variant = "ble"
                    THEN /\ WaitBeforeReads(k)
                         /\ IF k = L THEN pc = "f12_delay"
                                     ELSE IsSettleWait(bus[k + 1])
                    ELSE /\ IF k = L THEN pc = "f12_verify"
                                     ELSE IsSelect(bus[k + 1], a, 1)
                         /\ (k + 1 <= L /\ ~bus[k + 1].ok /\ k + 2 <= L) =>
                                ~IsDelay(bus[k + 2])
                         /\ (k + 2 <= L /\ bus[k + 1].ok) => IsRequest(bus[k + 2], a)
                         /\ (k + 3 <= L /\ bus[k + 1].ok /\ ~bus[k + 2].ok) =>
                                ~IsDelay(bus[k + 3])
                         /\ (k + 2 <= L /\ bus[k + 1].ok /\ bus[k + 2].ok) =>
                                IF k + 2 = L THEN pc = "f12_delay"
                                             ELSE IsSettleWait(bus[k + 3])

\* serial sketch: write-back acknowledged, re-read complete, then the wait
C5_Witness ==
    /\ InStartup
    /\ variant = "serial"
    /\ Len(bus) = 7
    /\ IsWrite(bus[4], ADDRS[1]) /\ bus[4].ok
    /\ IsSelect(bus[5], ADDRS[1], 1) /\ bus[5].ok
    /\ IsRequest(bus[6], ADDRS[1]) /\ bus[6].ok
    /\ IsSettleWait(bus[7])

(***************************************************************************)
(* C6.  As claimed: at startup, for every candidate address that           *)
(* acknowledges the presence probe and for which force12_and_run returns   *)
(* false, exactly one diagnostic warning is emitted for that address,      *)
(* startup continues with the remaining candidate addresses, and the       *)
(* address is still probed and read in every steady-state tick.            *)
(* The ble sketch drops the result of force12_and_run and never warns.     *)
(* (Spec)                                                                  *)
(***************************************************************************)
WarnCount(a) ==
    Cardinality({k \in 1 .. Len(serial) : serial[k].kind = "warn" /\ serial[k].addr = a})

\* the current tick has probed a, and has started a read of a if a acknowledged
PolledInTick(a) ==
    \E k \in 1 .. Len(bus) :
        /\ IsProbe(bus[k], a)
        /\ bus[k].ok => (k + 1 <= Len(bus) /\ IsSelect(bus[k + 1], a, 0))

C6_WarnOnceAndContinue ==
    /\ pc = "setup_done" =>
          \A i \in 1 .. N :
              /\ startup[i] # "pending"
              /\ WarnCount(ADDRS[i]) = IF startup[i] = "unverified" THEN 1 ELSE 0
    /\ pc = "loop_delay" =>
          \A i \in 1 .. N : startup[i] = "unverified" => PolledInTick(ADDRS[i])

(***************************************************************************)
(* C7.  In every tick, a candidate address contributes an entry to that    *)
(* tick's Reading Set if and only if its presence probe was acknowledged   *)
(* in that tick and the following read12 succeeded; an absent address and  *)
(* a present address whose read fails both contribute no entry, and each   *)
(* address contributes at most one entry.  (Spec)                          *)
(***************************************************************************)
TickProbeAcked(a) == \E k \in 1 .. Len(bus) : IsProbe(bus[k], a) /\ bus[k].ok

TickReadOk(a) == \E k \in 1 .. Len(bus) : IsRequest(bus[k], a) /\ bus[k].ok

TickReadFailed(a) ==
    \E k \in 1 .. Len(bus) :
        (IsSelect(bus[k], a, 0) \/ IsRequest(bus[k], a)) /\ ~bus[k].ok

\* number of Reading Set entries of the tick for a: reading lines in the
\* serial sketch, payload fragments in the ble sketch
ReadingEntries(a) ==
    IF variant = "serial"
    THEN Cardinality({k \in 1 .. Len(serial) :
                         serial[k].kind = "reading" /\ serial[k].addr = a})
    ELSE Cardinality({k \in 1 .. Len(payload) : payload[k].addr = a})

C7_EntryIffAckedAndRead ==
    InTick =>
        \A i \in 1 .. N :
            ReadingEntries(ADDRS[i]) =
                IF TickProbeAcked(ADDRS[i]) /\ TickReadOk(ADDRS[i]) THEN 1 ELSE 0

\* end of a tick: first address absent, second present but unreadable,
\* third read; only the third has an entry
C7_Witness ==
    /\ pc = "loop_delay"
    /\ ~TickProbeAcked(ADDRS[1])
    /\ TickProbeAcked(ADDRS[2]) /\ TickReadFailed(ADDRS[2])
    /\ TickProbeAcked(ADDRS[3]) /\ TickReadOk(ADDRS[3])
    /\ ReadingEntries(ADDRS[1]) = 0
    /\ ReadingEntries(ADDRS[2]) = 0
    /\ ReadingEntries(ADDRS[3]) = 1

(***************************************************************************)
(* C8.  A tick produces a publication (a write to the notification         *)
(* characteristic and/or a reading line on the diagnostic stream) if and   *)
(* only if its Reading Set is non-empty; a tick in which no candidate      *)
(* address both acknowledges and decodes produces no publication call at   *)
(* all.  (Spec)                                                            *)
(***************************************************************************)
Published ==
    \/ ble # <<>>
    \/ \E k \in 1 .. Len(serial) : serial[k].kind \in {"reading", "payload"}

AnyDecoded ==
    \E i \in 1 .. N : TickProbeAcked(ADDRS[i]) /\ TickReadOk(ADDRS[i])

\* the sweep and the publication step of the tick are over
TickDone == pc \in {"loop_delay", "loop_begin"}

C8_PublishIffNonEmpty ==
    /\ InTick => (Published => AnyDecoded)
    /\ TickDone => (AnyDecoded => Published)
    /\ (TickDone /\ variant = "ble" /\ AnyDecoded) =>
          ble = <<SetValue(payload), Notify(payload)>>

\* ble sketch, end of a tick: one device present but unreadable, the others
\* absent; nothing was published
C8_Witness ==
    /\ pc = "loop_delay"
    /\ variant = "ble"
    /\ TickProbeAcked(ADDRS[1]) /\ TickReadFailed(ADDRS[1])
    /\ ~AnyDecoded
    /\ ble = <<>>
    /\ serial = <<>>

(***************************************************************************)
(* C9.  As claimed: in a steady-state tick, a present device whose         *)
(* temperature read fails is handled exactly like an absent device:        *)
(* nothing is emitted for it on any output (no per-tick error line, no     *)
(* payload fragment).  The serial sketch prints "read failed @ 0x..", so   *)
(* this fails.  (Spec)                                                     *)
(***************************************************************************)
\* the lines of the diagnostic stream that name address a
LinesFor(a) == SelectSeq(serial, LAMBDA l : l.addr = a)

C9_FailedReadSilent ==
    InTick =>
        \A i \in 1 .. N :
            TickReadFailed(ADDRS[i]) =>
                (LinesFor(ADDRS[i]) = <<>> /\ ReadingEntries(ADDRS[i]) = 0)

(***************************************************************************)
(* C9, amended.  In a steady-state tick an absent device gets nothing on   *)
(* any output.  A present device whose temperature read fails gets no      *)
(* reading line and no payload fragment; in the ble sketch nothing at all  *)
(* is emitted for it, in the serial sketch exactly one "read failed" line  *)
(* naming its address is.                                                  *)
(***************************************************************************)
C9_FailedReadOutput ==
    InTick =>
        \A i \in 1 .. N :
            LET a == ADDRS[i]
            IN  /\ (\E k \in 1 .. Len(bus) : IsProbe(bus[k], a) /\ ~bus[k].ok) =>
                      (LinesFor(a) = <<>> /\ ReadingEntries(a) = 0)
                /\ TickReadFailed(a) =>
                      /\ ReadingEntries(a) = 0
                      /\ \A k \in 1 .. Len(payload) : payload[k].addr # a
                      /\ LinesFor(a) = IF variant = "serial"
                                       THEN <<ReadFailedLine(a)>> ELSE <<>>

\* serial sketch, end of a tick: the first device acknowledged, its read
\* failed, and the stream holds the "read failed" line for it
C9_Witness ==
    /\ pc = "loop_delay"
    /\ variant = "serial"
    /\ TickProbeAcked(ADDRS[1]) /\ TickReadFailed(ADDRS[1])
    /\ LinesFor(ADDRS[1]) = <<ReadFailedLine(ADDRS[1])>>

(***************************************************************************)
(* C10.  Under any sequence of bus transaction outcomes, and assuming each *)
(* bus transaction returns, startup completes and every tick completes and *)
(* is followed by another tick.  (FairSpec: the single thread of control   *)
(* always takes its next step.)                                            *)
(***************************************************************************)
FairSpec == Init /\ [][Next]_vars /\ WF_vars(Next)

C10_LoopNeverHalts ==
    /\ <>(pc = "setup_done")
    /\ []<>(pc = "loop_probe" /\ idx = 1)
    /\ []<>(pc = "loop_delay")

\* a tick has completed although a device failed verification at startup
\* and, in this tick, one probe was not acknowledged and one read failed
C10_Witness ==
    /\ pc = "loop_begin"
    /\ \E i \in 1 .. N : startup[i] = "unverified"
    /\ \E i \in 1 .. N : ~TickProbeAcked(ADDRS[i])
    /\ \E i \in 1 .. N : TickReadFailed(ADDRS[i])

(***************************************************************************)
(* C11.  For any two runs whose bus responses are identical for every      *)
(* address other than A, where A never acknowledges in one of them, the    *)
(* Reading Set entries of every other candidate address are identical in   *)
(* both runs in every tick, and A appears in no Reading Set of the run in  *)
(* which it never acknowledges.                                            *)
(* Checked one run at a time: in every tick, the calls the program         *)
(* addresses to a and the entry it emits for a are a function of the       *)
(* answers a itself gave in that tick (and of the build), so two runs that *)
(* agree on a's answers agree on a's entries whatever the other addresses  *)
(* did; and an address whose probe is not acknowledged has no entry.       *)
(* (Spec)                                                                  *)
(***************************************************************************)
\* E, the tick's calls to a, follows the fixed script probe, select of
\* register 0x00, request, each call made only if the one before succeeded
FollowsScript(E, a) ==
    /\ Len(E) <= 3
    /\ Len(E) >= 1 => IsProbe(E[1], a)
    /\ Len(E) >= 2 => (E[1].ok /\ IsSelect(E[2], a, 0))
    /\ Len(E) = 3 => (E[2].ok /\ IsRequest(E[3], a))

\* the script has run to its end for a
ScriptDone(E) ==
    /\ Len(E) >= 1
    /\ E[1].ok => Len(E) >= 2
    /\ (Len(E) >= 2 /\ E[2].ok) => Len(E) = 3

\* the entry a's own answers call for
EntryCalledFor(E) ==
    IF Len(E) = 3 /\ E[3].ok THEN {Upper12Signed(WordOf(E[3]))} ELSE {}

C11_EntriesLocal ==
    InTick =>
        \A i \in 1 .. N :
            LET a == ADDRS[i]
                E == EntriesFor(a)
            IN  /\ FollowsScript(E, a)
                /\ (TickDone \/ pc = "loop_publish" \/ i < idx) => ScriptDone(E)
                /\ (pc = "loop_probe" /\ i >= idx) => E = <<>>
                /\ EmittedFor(a) = EntryCalledFor(E)
                /\ ReadingEntries(a) = Cardinality(EntryCalledFor(E))
                /\ (Len(E) >= 1 /\ ~E[1].ok) =>
                      (Len(E) = 1 /\ ReadingEntries(a) = 0 /\ LinesFor(a) = <<>>)

\* end of a tick in which the second address did not acknowledge and the
\* first and the third each have the entry their own answers call for
C11_Witness ==
    /\ pc = "loop_delay"
    /\ ~TickProbeAcked(ADDRS[2])
    /\ ReadingEntries(ADDRS[2]) = 0
    /\ EmittedFor(ADDRS[1]) # {}
    /\ EmittedFor(ADDRS[1]) = EntryCalledFor(EntriesFor(ADDRS[1]))
    /\ EmittedFor(ADDRS[3]) # {}
    /\ EmittedFor(ADDRS[3]) = EntryCalledFor(EntriesFor(ADDRS[3]))

(***************************************************************************)
(* C12.  As claimed: in the ble sketch the payload of a tick is exactly    *)
(* the concatenation, in the order 0x4D, 0x48, 0x4F, of one fragment       *)
(* "Addr 0x%02X: %.2f C  |  " (address as two upper-case hex digits) per   *)
(* address that acknowledged and decoded in that tick, with nothing for    *)
(* the other addresses; with only 0x48 decoding, to 25.0, the payload is   *)
(* "Addr 0x48: 25.00 C  |  ".                                              *)
(* String(a, HEX) writes lower-case digits, so this fails for 0x4D and     *)
(* 0x4F.  (Spec)                                                           *)
(***************************************************************************)
\* the characters of a payload
RECURSIVE PayloadText(_)
PayloadText(p) == IF p = <<>> THEN "" ELSE Head(p).text \o PayloadText(Tail(p))

\* the three candidate addresses as two hex digits, upper and lower case
UpperHex2(a) == CASE a = 77 -> "4D" [] a = 72 -> "48" [] a = 79 -> "4F"
LowerHex2(a) == CASE a = 77 -> "4d" [] a = 72 -> "48" [] a = 79 -> "4f"

\* temperatures (in sixteenths) whose two-decimal text is listed here:
\* 25.0, 0.0625, -2.0, 0.9375, 127.9375, -0.5625
ListedTemps == {400, 1, 0 - 32, 15, 2047, 0 - 9}
TwoDecimals(raw) ==
    CASE raw = 400 -> "25.00"
      [] raw = 1 -> "0.06"
      [] raw = 0 - 32 -> "-2.00"
      [] raw = 15 -> "0.94"
      [] raw = 2047 -> "127.94"
      [] raw = 0 - 9 -> "-0.56"

\* the temperature address a decoded to in this tick, if it did
TickValue(a) == EntryCalledFor(EntriesFor(a))

TickValuesListed == \A i \in 1 .. N : TickValue(ADDRS[i]) \subseteq ListedTemps

\* the text the tick's bus record calls for, from the i-th address on, with
\* the address in upper-case or in lower-case digits
RECURSIVE TextFrom(_, _)
TextFrom(i, upper) ==
    IF i > N THEN ""
    ELSE LET a == ADDRS[i]
             v == TickValue(a)
         IN  (IF v = {} THEN ""
              ELSE "Addr 0x" \o (IF upper THEN UpperHex2(a) ELSE LowerHex2(a)) \o ": "
                   \o TwoDecimals(CHOOSE t \in v : TRUE) \o " C  |  ")
             \o TextFrom(i + 1, upper)

\* the payload, and whatever the tick handed to the sinks, reads as text
PayloadReads(text) ==
    /\ PayloadText(payload) = text
    /\ \A k \in 1 .. Len(ble) : PayloadText(ble[k].value) = text
    /\ \A k \in 1 .. Len(serial) : PayloadText(serial[k].payload) = text

Only0x48At25 ==
    /\ TickValue(77) = {}
    /\ TickValue(72) = {400}
    /\ TickValue(79) = {}

C12_PayloadUpperHex ==
    (variant = "ble" /\ InTick /\ TickValuesListed) =>
        /\ PayloadReads(TextFrom(1, TRUE))
        /\ (TickDone /\ Only0x48At25) => PayloadReads("Addr 0x48: 25.00 C  |  ")

(***************************************************************************)
(* C12, amended.  The same, with the address written as String(a, HEX)     *)
(* writes it, in lower-case hex digits: the fragments begin "Addr 0x4d: ", *)
(* "Addr 0x48: ", "Addr 0x4f: ".  The payload is what the tick hands to    *)
(* setValue, notify and Serial.println.                                    *)
(***************************************************************************)
C12_PayloadLowerHex ==
    (variant = "ble" /\ InTick /\ TickValuesListed) =>
        /\ PayloadReads(TextFrom(1, FALSE))
        /\ (TickDone /\ Only0x48At25) => PayloadReads("Addr 0x48: 25.00 C  |  ")

\* a tick of the ble sketch has published the readings of 0x4D and 0x4F,
\* 0x48 being absent
C12_Witness ==
    /\ variant = "ble"
    /\ pc = "loop_delay"
    /\ TickValue(77) = {400}
    /\ TickValue(72) = {}
    /\ TickValue(79) = {400}
    /\ ble # <<>>
    /\ PayloadText(ble[1].value) = "Addr 0x4d: 25.00 C  |  Addr 0x4f: 25.00 C  |  "

(***************************************************************************)
(* C13.  As claimed: against a device that latches every written register  *)
(* value and whose bus transactions all succeed, running force12_and_run   *)
(* twice in succession from any initial 16-bit register value returns true *)
(* both times and leaves the same register value after the second run as   *)
(* after the first (the second write-back equals the value read).          *)
(* In a build that evaluates the right-hand Wire.read() of i2cRead16       *)
(* first, the program sees the latched value with its bytes swapped, and   *)
(* this fails.  (SpecTwice)                                                *)
(***************************************************************************)
\* the two bytes an acknowledged write e left in the device
Latched(e) == <<e.bytes[2], e.bytes[3]>>

\* E[1 .. n] all succeeded
AllOk(E, n) == Len(E) >= n /\ \A k \in 1 .. n : E[k].ok

\* E = probe, read, write, re-read (first call), read, write, re-read
\* (second call): the first call is over, all of it succeeded and the device
\* answered the re-read with what was written
FirstRunLatched(E) ==
    /\ AllOk(E, 6)
    /\ E[6].bytes = Latched(E[4])
    /\ ~(Len(E) = 6 /\ pc \in {"f12_verify", "f12_delay"})

C13_TwiceIsOnce ==
    LET E == EntriesFor(ADDRS[1])
    IN  \* the first call returned true
        /\ (FirstRunLatched(E) /\ Len(E) = 6) => startup[1] = "verified"
        \* the second call writes back the value it read, which is the value
        \* the first call left
        /\ (FirstRunLatched(E) /\ AllOk(E, 9)) =>
              /\ E[8].bytes = Latched(E[4])
              /\ Latched(E[9]) = E[8].bytes
        \* the second call returned true
        /\ (/\ FirstRunLatched(E) /\ AllOk(E, 11) /\ E[11].bytes = Latched(E[9])
            /\ pc = "setup_probe") => startup[1] = "verified"

(***************************************************************************)
(* C14.  The Reading Set of a tick depends only on the bus responses       *)
(* received during that tick: presence is probed afresh for every          *)
(* candidate address in every tick, so an address that was absent or       *)
(* failed at startup or in any earlier tick is included as soon as it      *)
(* acknowledges and decodes, an address that stops acknowledging is        *)
(* excluded from that tick on, and no entry from an earlier tick ever      *)
(* appears in a later tick's Reading Set or payload.  (Spec)               *)
(***************************************************************************)
\* this tick's bus record holds a complete read of a that decodes to t
ReadInThisTick(a, t) ==
    \E j \in 1 .. Len(bus) :
        /\ IsRequest(bus[j], a) /\ bus[j].ok
        /\ t = Upper12Signed(WordOf(bus[j]))
        /\ j >= 3 /\ IsProbe(bus[j - 2], a) /\ bus[j - 2].ok

\* every fragment of p was read in this tick
FragmentsFresh(p) ==
    \A k \in 1 .. Len(p) : ReadInThisTick(p[k].addr, p[k].tC)

\* a was probed in this tick and did not acknowledge
TickProbeNacked(a) == \E k \in 1 .. Len(bus) : IsProbe(bus[k], a) /\ ~bus[k].ok

C14_TickIsFresh ==
    InTick =>
        \* whatever is in the payload, on the stream or handed to the
        \* characteristic in this tick was read in this tick
        /\ FragmentsFresh(payload)
        /\ \A k \in 1 .. Len(ble) : ble[k].value = payload
        /\ \A k \in 1 .. Len(serial) :
              /\ serial[k].kind = "reading" =>
                    ReadInThisTick(serial[k].addr, serial[k].x)
              /\ serial[k].kind = "payload" => serial[k].payload = payload
        \* inclusion follows this tick's answers, not startup's outcome and
        \* not what the characteristic still holds
        /\ \A i \in 1 .. N :
              /\ (TickProbeAcked(ADDRS[i]) /\ TickReadOk(ADDRS[i])) =>
                    ReadingEntries(ADDRS[i]) = 1
              /\ TickProbeNacked(ADDRS[i]) => ReadingEntries(ADDRS[i]) = 0
        \* every address is probed in every tick
        /\ TickDone => \A i \in 1 .. N : TickProbeAcked(ADDRS[i]) \/ TickProbeNacked(ADDRS[i])

\* ble sketch, end of a sweep: the first address, absent at startup, and the
\* second, whose configuration failed, have entries; the third, still in
\* the value published by an earlier tick, no longer acknowledges and has
\* none
C14_Witness ==
    /\ variant = "ble"
    /\ pc = "loop_publish"
    /\ startup[1] = "absent"
    /\ startup[2] = "unverified"
    /\ ReadingEntries(ADDRS[1]) = 1
    /\ ReadingEntries(ADDRS[2]) = 1
    /\ startup[3] = "verified"
    /\ TickProbeNacked(ADDRS[3])
    /\ ReadingEntries(ADDRS[3]) = 0
    /\ \A k \in 1 .. Len(payload) : payload[k].addr # ADDRS[3]

(***************************************************************************)
(* C15.  As claimed: within a tick the steps follow the order              *)
(* Probing(address_i) then Reading(address_i) for each candidate address   *)
(* in list order, and publication happens at most once per tick and only   *)
(* after the last candidate address has been probed; no reading is handed  *)
(* to an output sink while later candidate addresses of the same tick are  *)
(* still unprobed.                                                         *)
(* The serial sketch prints each reading as soon as it is read, so this    *)
(* fails.  (Spec)                                                          *)
(***************************************************************************)
IndexOf(a) == CHOOSE i \in 1 .. N : ADDRS[i] = a

\* the tick's calls come address by address in list order, each address's
\* calls being probe, select, request; the tick's wait comes last
SweepInOrder ==
    /\ \A j \in 1 .. Len(bus) :
          IF IsDelay(bus[j])
          THEN j = Len(bus) /\ TickDone
          ELSE j > 1 => IndexOf(bus[j - 1].addr) <= IndexOf(bus[j].addr)
    /\ \A i \in 1 .. N : FollowsScript(EntriesFor(ADDRS[i]), ADDRS[i])

AllProbed == \A i \in 1 .. N : \E k \in 1 .. Len(bus) : IsProbe(bus[k], ADDRS[i])

\* number of hand-offs of readings to the diagnostic stream in this tick
StreamHandOffs ==
    Cardinality({k \in 1 .. Len(serial) : serial[k].kind \in {"reading", "payload"}})

C15_PublishAfterSweep ==
    InTick =>
        /\ SweepInOrder
        /\ Published => AllProbed
        /\ StreamHandOffs <= 1
        /\ Len(ble) <= 2

(***************************************************************************)
(* C15, amended.  Within a tick the calls follow the order probe of        *)
(* address_i then read of address_i for each candidate address in list     *)
(* order.  In the ble sketch publication happens at most once per tick     *)
(* (one line, one setValue, one notify) and only after the last candidate  *)
(* address has been probed.  In the serial sketch the line of an address   *)
(* (reading or "read failed") is written as soon as the read of that       *)
(* address has returned, before later addresses are probed: one line per   *)
(* address that acknowledged, in list order.                               *)
(***************************************************************************)
\* a read of a has been started in this tick
TickReadStarted(a) == \E k \in 1 .. Len(bus) : IsSelect(bus[k], a, 0)

C15_OrderPerVariant ==
    InTick =>
        /\ SweepInOrder
        /\ IF variant = "ble"
           THEN /\ Published => (AllProbed /\ TickDone)
                /\ StreamHandOffs <= 1
                /\ ble \in {<<>>, <<SetValue(payload), Notify(payload)>>}
           ELSE /\ ble = <<>>
                /\ \A i \in 1 .. N :
                      Len(LinesFor(ADDRS[i])) =
                          IF TickReadStarted(ADDRS[i]) THEN 1 ELSE 0
                /\ \A j \in 2 .. Len(serial) :
                      IndexOf(serial[j - 1].addr) < IndexOf(serial[j].addr)

\* serial sketch, mid-sweep: the reading of the first address is on the
\* stream and the second address is about to be probed
C15_Witness ==
    /\ variant = "serial"
    /\ pc = "loop_probe"
    /\ idx = 2
    /\ Len(bus) = 3
    /\ IsRequest(bus[3], ADDRS[1]) /\ bus[3].ok
    /\ serial = <<ReadingLine(ADDRS[1], Upper12Signed(WordOf(bus[3])))>>
    /\ ~AllProbed

(***************************************************************************)
(* C16.  Within one tick every candidate address receives exactly one      *)
(* presence probe and at most one temperature read attempt, the read       *)
(* attempt being issued only after that tick's probe of the same address   *)
(* was acknowledged; a failed probe, a failed register-select or a short   *)
(* read is never retried within the same tick.  (Spec)                     *)
(***************************************************************************)
\* numbers of probes, register selects and requests among the calls E to a
Probes(E, a) == Cardinality({k \in 1 .. Len(E) : IsProbe(E[k], a)})
Selects(E, a) == Cardinality({k \in 1 .. Len(E) : IsSelect(E[k], a, 0)})
Requests(E, a) == Cardinality({k \in 1 .. Len(E) : IsRequest(E[k], a)})

TickProbes(a) == Probes(EntriesFor(a), a)
TickSelects(a) == Selects(EntriesFor(a), a)
TickRequests(a) == Requests(EntriesFor(a), a)

C16_OneProbeOneRead ==
    InTick =>
        \A i \in 1 .. N :
            LET a == ADDRS[i]
                E == EntriesFor(a)
            IN  /\ Probes(E, a) <= 1
                /\ (TickDone \/ pc = "loop_publish" \/ i < idx) => Probes(E, a) = 1
                /\ Selects(E, a) <= 1
                /\ Requests(E, a) <= 1
                /\ \A k \in 1 .. Len(E) :
                      \* every call to a is a probe, a select or a request
                      /\ IsProbe(E[k], a) \/ IsSelect(E[k], a, 0) \/ IsRequest(E[k], a)
                      \* the read attempt comes after the acknowledged probe
                      /\ IsSelect(E[k], a, 0) =>
                            (k > 1 /\ IsProbe(E[k - 1], a) /\ E[k - 1].ok)
                      /\ IsRequest(E[k], a) =>
                            (k > 1 /\ IsSelect(E[k - 1], a, 0) /\ E[k - 1].ok)
                      \* nothing is addressed to a after a call to a failed
                      /\ ~E[k].ok => k = Len(E)

\* end of a tick: the first probe, the second address's register select and
\* the third address's read failed; each was tried once
C16_Witness ==
    /\ pc = "loop_delay"
    /\ TickProbeNacked(ADDRS[1])
    /\ TickProbes(ADDRS[1]) = 1 /\ TickSelects(ADDRS[1]) = 0
    /\ \E k \in 1 .. Len(bus) : IsSelect(bus[k], ADDRS[2], 0) /\ ~bus[k].ok
    /\ TickProbes(ADDRS[2]) = 1 /\ TickSelects(ADDRS[2]) = 1 /\ TickRequests(ADDRS[2]) = 0
    /\ \E k \in 1 .. Len(bus) : IsRequest(bus[k], ADDRS[3]) /\ ~bus[k].ok
    /\ TickProbes(ADDRS[3]) = 1 /\ TickSelects(ADDRS[3]) = 1 /\ TickRequests(ADDRS[3]) = 1

(***************************************************************************)
(* C17.  The Mode Configurator runs only during startup and at most once   *)
(* per candidate address, and only for addresses whose startup probe was   *)
(* acknowledged; no steady-state tick issues a register write, so a device *)
(* that first acknowledges after startup is read every tick without its    *)
(* mode-control register ever having been written.  (Spec)                 *)
(***************************************************************************)
InConfigurator == pc \in {"f12_read", "f12_write", "f12_delay", "f12_verify"}

\* e is a call only force12_and_run makes: a select or a write of register
\* 0x01, or a wait of 150 ms
IsConfiguratorCall(e) ==
    \/ (e.op = "tx" /\ Len(e.bytes) >= 1 /\ e.bytes[1] = 1)
    \/ IsSettleWait(e)

C17_ConfiguredOnlyAtStartup ==
    \* the configurator is entered only for the address startup is at, which
    \* it has not dealt with before and whose probe was just acknowledged
    /\ InConfigurator =>
          /\ startup[idx] = "pending"
          /\ \A i \in 1 .. N : (i < idx) <=> (startup[i] # "pending")
          /\ LET E == EntriesFor(Addr)
             IN  Len(E) >= 1 /\ IsProbe(E[1], Addr) /\ E[1].ok
    \* startup's record: configurator calls only to addresses that
    \* acknowledged their probe, one run each
    /\ InStartup =>
          \A i \in 1 .. N :
              LET a == ADDRS[i]
                  E == EntriesFor(a)
              IN  /\ startup[i] = "absent" => (Len(E) = 1 /\ ~E[1].ok)
                  /\ Len(E) > 1 => (IsProbe(E[1], a) /\ E[1].ok)
                  /\ Cardinality({k \in 1 .. Len(E) : IsWrite(E[k], a)}) <= 1
                  /\ Cardinality({k \in 1 .. Len(E) : IsSelect(E[k], a, 1)}) <= 2
    \* once startup is over it stays over, and a tick makes no configurator
    \* call
    /\ InTick =>
          /\ \A i \in 1 .. N : startup[i] # "pending"
          /\ \A k \in 1 .. Len(bus) : ~IsConfiguratorCall(bus[k])

\* end of a tick in which the first address, absent at startup and so never
\* configured, was probed and read
C17_Witness ==
    /\ pc = "loop_delay"
    /\ startup[1] = "absent"
    /\ TickProbeAcked(ADDRS[1]) /\ TickReadOk(ADDRS[1])
    /\ ReadingEntries(ADDRS[1]) = 1
    /\ \A k \in 1 .. Len(bus) : ~IsWrite(bus[k], bus[k].addr)

(***************************************************************************)
(* C18.  As claimed: i2cRead16(a, r, v) reports success exactly when the   *)
(* register-select write, ended with a repeated start, was acknowledged    *)
(* and the following request returned exactly 2 bytes, and then            *)
(* v = 256 * (first byte received) + (second byte received); if the        *)
(* register-select is not acknowledged no byte request is issued, and on   *)
(* either failure v is left unchanged.                                     *)
(* In a build that evaluates the right-hand Wire.read() of                 *)
(* (Wire.read() << 8) | Wire.read() first, v is 256 * second + first, so   *)
(* this fails.  Stated on the first read of force12_and_run, whose result  *)
(* is cfg_before.  (SpecCfg)                                               *)
(***************************************************************************)
C18_Read16Contract ==
    (Len(bus) \in {2, 3} /\ pc # "f12_read") =>
        \* the register select, without stop
        /\ IsSelect(bus[2], ADDRS[1], 1)
        \* no request after a select that was not acknowledged
        /\ Len(bus) = 3 <=> bus[2].ok
        /\ Len(bus) = 3 => IsRequest(bus[3], ADDRS[1])
        \* success exactly when two bytes came
        /\ pc = "f12_write" <=> (Len(bus) = 3 /\ bus[3].got = 2)
        /\ pc # "f12_write" => (pc = "setup_probe" /\ startup[1] = "unverified")
        \* the first byte received is the high byte
        /\ pc = "f12_write" =>
              cfg_before = 256 * bus[3].bytes[1] + bus[3].bytes[2]


(***************************************************************************)
(* C19.  i2cWrite16(a, r, v) sends exactly three bytes in one transaction  *)
(* in the order register-select r, high byte of v, low byte of v, and      *)
(* reports success if and only if the terminating bus-stop of that         *)
(* transaction was acknowledged; it performs a single attempt.             *)
(* Stated on the write-back of force12_and_run, i2cWrite16(a, 0x01, cfg):  *)
(* the step taken from the write adds exactly one call to the bus record,  *)
(* and force12_and_run goes on exactly when it was acknowledged.           *)
(* (SpecCfg)                                                               *)
(***************************************************************************)
WriteStep ==
    pc = "f12_write" =>
        /\ Len(bus') = Len(bus) + 1
        /\ SubSeq(bus', 1, Len(bus)) = bus
        /\ LET e == bus'[Len(bus')]
           IN  /\ e.op = "tx" /\ e.addr = ADDRS[idx] /\ e.stop
               /\ e.bytes = <<1, cfg \div 256, cfg % 256>>
               /\ e.ok <=> pc' \in {"f12_delay", "f12_verify"}
               /\ ~e.ok => (pc' = "setup_probe" /\ startup'[idx] = "unverified")

C19_Write16Contract == [][WriteStep]_vars

\* the write-back of 0xFEFB was sent as 01 FE FB, once, was not acknowledged
\* and force12_and_run returned false
C19_Witness ==
    /\ Len(bus) = 4
    /\ IsWrite(bus[4], ADDRS[1])
    /\ bus[4].bytes = <<1, 254, 251>>
    /\ ~bus[4].ok
    /\ pc = "setup_probe"
    /\ startup[1] = "unverified"

(***************************************************************************)
(* C20.  For every 16-bit raw word w, the value after the arithmetic 4-bit *)
(* right shift in read12 already lies in [-2048, 2047], so the conditional *)
(* OR with 0xF000 on bit 11 never changes it, and every decoded            *)
(* temperature is a multiple of 0.0625 within [-128, 127.9375].            *)
(* Temperatures are counted in sixteenths, so the range is -2048 .. 2047.  *)
(* (SpecDecode)                                                            *)
(***************************************************************************)
\* w as a signed 16-bit integer, shifted right by 4 with the sign kept
\* (floor of the 16th part), and nothing else done to it
ShiftedOnly(w) == (IF w >= 32768 THEN w - 65536 ELSE w) \div 16

C20_ShiftAloneInRange ==
    \A k \in 1 .. Len(bus) :
        (IsRequest(bus[k], ADDRS[1]) /\ bus[k].ok) =>
            LET w == WordOf(bus[k])
            IN  /\ ShiftedOnly(w) \in (0 - 2048) .. 2047
                /\ EmittedFor(ADDRS[1]) = {ShiftedOnly(w)}
                /\ EmittedFor(ADDRS[1]) \subseteq (0 - 2048) .. 2047

\* 0x8000 was read: the shifted value -2048 has bit 11 set, the OR is
\* applied, and -128.0 is emitted
C20_Witness ==
    /\ Len(bus) = 3
    /\ bus[3].ok
    /\ WordOf(bus[3]) = 32768
    /\ EmittedFor(ADDRS[1]) = {0 - 2048}

=============================================================================
